---- MODULE Spec2Model ----
(***************************************************************************)
(* cpuid_raw (src/c/cpuid.c): the raw CPUID query primitive.               *)
(*                                                                         *)
(* The build configuration (which of _MSC_VER, __GNUC__/__clang__ the      *)
(* preprocessor sees, and whether the target is x86) selects one of three  *)
(* bodies at compile time.  Caller threads invoke the function with their  *)
(* own output locations; the scheduler places every call on some logical   *)
(* processor, whose answer to the CPUID instruction is fixed.              *)
(***************************************************************************)
EXTENDS Integers, Sequences, FiniteSets, TLC

\* ------------------------------------------------------------------ bounds
NumThreads == 2
NumCpus == 2

Threads == 1..NumThreads
Cpus == 1..NumCpus

\* ------------------------------------------------- 32-bit integer arithmetic
\* A uint32_t is held as its two 16-bit halves <<hi, lo>> (value hi * 2^16 + lo);
\* an int is held as the integer itself, in -2^31 .. 2^31 - 1.
Half == 2^16
SignBit == 2^15
IsU32(w) == w[1] \in 0 .. Half - 1 /\ w[2] \in 0 .. Half - 1
Word(hi, lo) == <<hi, lo>>

\* uint32_t -> int, as done when leaf/subleaf are passed to __cpuidex(int*, int, int):
\* the same 32 bits read as two's complement
ToInt(u) ==
    IF u[1] >= SignBit THEN (u[1] - Half) * Half + u[2] ELSE u[1] * Half + u[2]

\* int -> uint32_t, as done by  *eax = regs[0]  (the value modulo 2^32)
ToU32Clamped(i) ==
    IF i < 0 THEN Word(0, 0) ELSE Word((i \div Half) % Half, i % Half)
ToU32(i) == Word((i \div Half) % Half, i % Half)

\* ------------------------------------------------------------- the callers
\* The (leaf, subleaf) pairs the callers ask for: (0, 0), extended leaf
\* (0x80000008, 0) and (0, 0xFFFFFFFF).
Queries ==
    {<<Word(0, 0), Word(0, 0)>>,
     <<Word(SignBit, 8), Word(0, 0)>>,
     <<Word(0, 0), Word(Half - 1, Half - 1)>>}

NoArg == <<-1, -1>>
Unwritten == <<-1, -1>>
Fresh == [eax |-> Unwritten, ebx |-> Unwritten, ecx |-> Unwritten, edx |-> Unwritten]

\* ------------------------------------------------------------ the hardware
\* What logical processor p reports for EAX = a, ECX = c.  The four registers
\* differ from each other, two of them have the top bit set, and the answer
\* depends on the processor and on both selectors.
Mix(p, a, c) == (a[1] % 251) * 64 + (a[2] % 251) * 32 + (c[1] % 13) * 8 + p
Cpuid(p, a, c) ==
    [eax |-> Word(0, Mix(p, a, c)),
     ebx |-> Word(SignBit + 1, Mix(p, a, c)),
     ecx |-> Word(Half - 1, Half - 1 - Mix(p, a, c)),
     edx |-> Word(1, Mix(p, a, c))]

\* ------------------------------------------------------ build configuration
Configs == [msc : BOOLEAN, gnuc : BOOLEAN, x86 : BOOLEAN]

\* the #if / #elif / #else chain
BranchGnuFirst(c) ==
    IF c.gnuc THEN "asm" ELSE IF c.msc THEN "intrinsic" ELSE "zero"
Branch(c) ==
    IF c.msc THEN "intrinsic" ELSE IF c.gnuc THEN "asm" ELSE "zero"

\* The intrinsic and the "cpuid" mnemonic with its "a"/"b"/"c"/"d" register
\* constraints exist only for x86 targets: on any other target the selected
\* body does not build, and there is no function to call.
Builds(c) == Branch(c) = "zero" \/ c.x86

VARIABLES cfg, pc, leaf, subleaf, cpu, sel, regs, out, ref

vars == <<cfg, pc, leaf, subleaf, cpu, sel, regs, out, ref>>

Dead == [live |-> FALSE, v |-> <<0, 0, 0, 0>>]
None == [set |-> FALSE, cpu |-> 1, v |-> Fresh]
NoSel == <<NoArg, NoArg>>

Init ==
    /\ cfg \in Configs
    /\ pc = [t \in Threads |-> "ready"]
    /\ leaf = [t \in Threads |-> NoArg]
    /\ subleaf = [t \in Threads |-> NoArg]
    /\ cpu = [t \in Threads |-> 1]
    /\ sel = [t \in Threads |-> NoSel]
    /\ regs = [t \in Threads |-> Dead]
    /\ out = [t \in Threads |-> Fresh]
    /\ ref = None

\* int regs[4] has automatic storage: one array per invocation
RegsSlotStatic(t) == 1
RegsSlot(t) == t

\* ... and its lifetime ends when the call returns
RegsAtReturnKept(r) == r
RegsAtReturn(r) == Dead

\* Each body is straight-line code: __cpuidex is followed by the four stores,
\* and every other statement is followed by the return.
AfterRetrying(at) == IF at = "cpuidex" THEN "unpack" ELSE IF at = "unpack" THEN "cpuidex" ELSE "ready"
After(at) == IF at = "cpuidex" THEN "unpack" ELSE "ready"

\* first pc of the body the preprocessor selected
Entry(c) ==
    CASE Branch(c) = "intrinsic" -> "cpuidex"
      [] Branch(c) = "asm" -> "asm"
      [] Branch(c) = "zero" -> "zero"

\* The caller declares fresh output locations and calls cpuid_raw(l, s, ...);
\* the scheduler has the thread on logical processor p for this call.
Invoke(t, l, s, p) ==
    /\ pc[t] = "ready"
    /\ Builds(cfg)
    /\ pc' = [pc EXCEPT ![t] = Entry(cfg)]
    /\ leaf' = [leaf EXCEPT ![t] = l]
    /\ subleaf' = [subleaf EXCEPT ![t] = s]
    /\ cpu' = [cpu EXCEPT ![t] = p]
    /\ sel' = [sel EXCEPT ![t] = NoSel]
    /\ out' = [out EXCEPT ![t] = Fresh]
    /\ UNCHANGED <<cfg, regs, ref>>

\* the first result any caller obtained for (0, 0), and the logical processor
\* that gave it
Remember(t, o) ==
    IF leaf[t] = Word(0, 0) /\ subleaf[t] = Word(0, 0) /\ ~ref.set
    THEN [set |-> TRUE, cpu |-> cpu[t], v |-> o]
    ELSE ref

\* __cpuidex(regs, leaf, subleaf): the arguments are converted to int, the
\* instruction runs with EAX = function id, ECX = subfunction id, and the four
\* registers are stored as int.
CpuidexSel(fid, sid) == <<ToU32(fid), ToU32(sid)>>
CpuidexStore(h) == <<ToInt(h.eax), ToInt(h.ebx), ToInt(h.ecx), ToInt(h.edx)>>

CpuidEx(t) ==
    /\ pc[t] = "cpuidex"
    /\ LET s == CpuidexSel(ToInt(leaf[t]), ToInt(subleaf[t]))
           h == Cpuid(cpu[t], s[1], s[2])
       IN /\ sel' = [sel EXCEPT ![t] = s]
          /\ regs' = [regs EXCEPT ![RegsSlot(t)] = [live |-> TRUE, v |-> CpuidexStore(h)]]
    /\ pc' = [pc EXCEPT ![t] = After("cpuidex")]
    /\ UNCHANGED <<cfg, leaf, subleaf, cpu, out, ref>>

\* *eax = regs[0]; *ebx = regs[1]; *ecx = regs[2]; *edx = regs[3];
UnpackedNoEdx(r) ==
    [eax |-> ToU32(r[1]), ebx |-> ToU32(r[2]), ecx |-> ToU32(r[3]), edx |-> Unwritten]
Unpacked(r) ==
    [eax |-> ToU32(r[1]), ebx |-> ToU32(r[2]), ecx |-> ToU32(r[3]), edx |-> ToU32(r[4])]

Unpack(t) ==
    /\ pc[t] = "unpack"
    /\ LET o == Unpacked(regs[RegsSlot(t)].v)
       IN /\ out' = [out EXCEPT ![t] = o]
          /\ ref' = Remember(t, o)
    /\ regs' = [regs EXCEPT ![RegsSlot(t)] = RegsAtReturn(regs[RegsSlot(t)])]
    /\ pc' = [pc EXCEPT ![t] = After("unpack")]
    /\ UNCHANGED <<cfg, leaf, subleaf, cpu, sel>>

\* __asm__ volatile("cpuid" : "=a"(*eax), "=b"(*ebx), "=c"(*ecx), "=d"(*edx)
\*                          : "a"(leaf), "c"(subleaf));
AsmSelSwapped(l, s) == <<s, l>>
AsmSel(l, s) == <<l, s>>

InlineAsm(t) ==
    /\ pc[t] = "asm"
    /\ LET s == AsmSel(leaf[t], subleaf[t])
           o == Cpuid(cpu[t], s[1], s[2])
       IN /\ sel' = [sel EXCEPT ![t] = s]
          /\ out' = [out EXCEPT ![t] = o]
          /\ ref' = Remember(t, o)
    /\ pc' = [pc EXCEPT ![t] = After("asm")]
    /\ UNCHANGED <<cfg, leaf, subleaf, cpu, regs>>

\* *eax = *ebx = *ecx = *edx = 0;
ZeroedEaxOnly == [Fresh EXCEPT !.eax = Word(0, 0)]
Zeroed == [eax |-> Word(0, 0), ebx |-> Word(0, 0), ecx |-> Word(0, 0), edx |-> Word(0, 0)]

ZeroFallback(t) ==
    /\ pc[t] = "zero"
    /\ out' = [out EXCEPT ![t] = Zeroed]
    /\ ref' = Remember(t, Zeroed)
    /\ pc' = [pc EXCEPT ![t] = After("zero")]
    /\ UNCHANGED <<cfg, leaf, subleaf, cpu, sel, regs>>

Body(t) == CpuidEx(t) \/ Unpack(t) \/ InlineAsm(t) \/ ZeroFallback(t)

Next ==
    \/ \E t \in Threads, q \in Queries, p \in Cpus : Invoke(t, q[1], q[2], p)
    \/ \E t \in Threads : CpuidEx(t)
    \/ \E t \in Threads : Unpack(t)
    \/ \E t \in Threads : InlineAsm(t)
    \/ \E t \in Threads : ZeroFallback(t)

Spec == Init /\ [][Next]_vars

\* One caller on its own, making one call after another; a thread inside
\* cpuid_raw keeps running until the call returns.
SeqNext ==
    \/ \E q \in Queries, p \in Cpus : Invoke(1, q[1], q[2], p)
    \/ CpuidEx(1)
    \/ Unpack(1)
    \/ InlineAsm(1)
    \/ ZeroFallback(1)

SeqFairSpec == Init /\ [][SeqNext]_vars /\ WF_vars(Body(1))

\* --------------------------------------------------------------- vocabulary
InCall(t) == pc[t] # "ready"
\* thread t's last call has returned and its outputs are there to read
Done(t) == pc[t] = "ready" /\ leaf[t] # NoArg
AllWritten(o) == IsU32(o.eax) /\ IsU32(o.ebx) /\ IsU32(o.ecx) /\ IsU32(o.edx)
AllZero(o) ==
    o.eax = <<0, 0>> /\ o.ebx = <<0, 0>> /\ o.ecx = <<0, 0>> /\ o.edx = <<0, 0>>
IsQuery00(t) == leaf[t] = Word(0, 0) /\ subleaf[t] = Word(0, 0)

\* cpuid_raw run from call to return with nothing in between: what a
\* single-threaded caller gets for (l, s) on logical processor p
CpuidRaw(c, p, l, s) ==
    CASE Branch(c) = "intrinsic" ->
           LET i == CpuidexSel(ToInt(l), ToInt(s))
           IN Unpacked(CpuidexStore(Cpuid(p, i[1], i[2])))
      [] Branch(c) = "asm" ->
           LET a == AsmSel(l, s) IN Cpuid(p, a[1], a[2])
      [] Branch(c) = "zero" -> Zeroed

TypeOK ==
    /\ cfg \in Configs
    /\ pc \in [Threads -> {"ready", "cpuidex", "unpack", "asm", "zero"}]
    /\ cpu \in [Threads -> Cpus]
    /\ \A t \in Threads :
          /\ (leaf[t] = NoArg /\ subleaf[t] = NoArg) \/ <<leaf[t], subleaf[t]>> \in Queries
          /\ out[t] = Fresh \/ AllWritten(out[t])
          /\ regs[t].live \in BOOLEAN
    /\ ref.set \in BOOLEAN

\* ------------------------------------------------------------------- claims

\* C1: built with neither _MSC_VER nor __GNUC__/__clang__, every call that has
\* returned, whatever its (leaf, subleaf), left 0 in all four outputs.
C1_ZeroFallbackAllZero ==
    (~cfg.msc /\ ~cfg.gnuc) => \A t \in Threads : Done(t) => AllZero(out[t])
C1_Witness ==
    /\ ~cfg.msc /\ ~cfg.gnuc
    /\ \E t, u \in Threads :
          /\ Done(t) /\ IsQuery00(t)
          /\ Done(u) /\ ~IsQuery00(u)

\* C2: on a non-x86 target the zero-fallback branch is the one selected and
\* every returned call has all four outputs zero, whatever the toolchain.
C2_NonX86TakesZeroBranch ==
    ~cfg.x86 =>
        /\ Branch(cfg) = "zero"
        /\ \A t \in Threads : Done(t) => AllZero(out[t])

\* C3: when a call has returned, on whichever path, all four outputs hold a
\* written 32-bit value.
C3_AllOutputsWritten ==
    \A t \in Threads : Done(t) => AllWritten(out[t])
C3_Witness ==
    \E t \in Threads : Done(t) /\ Branch(cfg) = "intrinsic" /\ AllWritten(out[t])

\* C4: the body a call runs is fixed by the build configuration in priority
\* order: intrinsic if _MSC_VER, else inline assembly if __GNUC__/__clang__,
\* else the zero fallback.
C4_DispatchPriority ==
    \A t \in Threads : InCall(t) =>
        /\ cfg.msc => pc[t] \in {"cpuidex", "unpack"}
        /\ (~cfg.msc /\ cfg.gnuc) => pc[t] = "asm"
        /\ (~cfg.msc /\ ~cfg.gnuc) => pc[t] = "zero"
C4_Witness ==
    cfg.msc /\ cfg.gnuc /\ \E t \in Threads : pc[t] = "cpuidex" /\ ~IsQuery00(t)

\* C5: on the intrinsic and inline-assembly paths the instruction ran with
\* EAX = leaf and ECX = subleaf, and the outputs are the processor's EAX, EBX,
\* ECX, EDX in that order, unchanged.
C5_Verbatim ==
    \A t \in Threads : (Done(t) /\ Branch(cfg) # "zero") =>
        /\ sel[t] = <<leaf[t], subleaf[t]>>
        /\ out[t] = Cpuid(cpu[t], leaf[t], subleaf[t])
C5_Witness ==
    \E t, u \in Threads :
        /\ Branch(cfg) = "asm"
        /\ Done(t) /\ leaf[t] = Word(SignBit, 8)
        /\ Done(u) /\ subleaf[u] = Word(Half - 1, Half - 1)

\* C6: with calls of several threads interleaved, each returned call has the
\* result the same call gives when run alone.
C6_SameAsSequential ==
    \A t \in Threads : Done(t) => out[t] = CpuidRaw(cfg, cpu[t], leaf[t], subleaf[t])
C6_Witness ==
    \E t, u \in Threads :
        /\ t # u
        /\ Done(t) /\ Branch(cfg) = "intrinsic"
        /\ pc[u] = "unpack" /\ regs[u].live
        /\ <<leaf[u], subleaf[u]>> # <<leaf[t], subleaf[t]>>

\* C7: a returned call for (0, 0) on the logical processor that answered the
\* first (0, 0) call has the outputs that first call had.
C7_Stable00 ==
    \A t \in Threads :
        (Done(t) /\ IsQuery00(t) /\ ref.set /\ ref.cpu = cpu[t]) => out[t] = ref.v
C7_Witness ==
    \E t, u \in Threads :
        /\ t # u /\ ref.set /\ Branch(cfg) # "zero"
        /\ Done(t) /\ IsQuery00(t) /\ cpu[t] = ref.cpu
        /\ Done(u) /\ IsQuery00(u) /\ cpu[u] = ref.cpu

\* C8: a call has no loop (its pc only moves forward, to the return) and,
\* once entered, always returns, leaving the thread ready for the next call.
Rank(at) == CASE at = "ready" -> 0 [] at = "cpuidex" -> 2 [] OTHER -> 1
C8_CallTerminates ==
    /\ [][\A t \in Threads : (InCall(t) /\ pc'[t] # pc[t]) => Rank(pc'[t]) < Rank(pc[t])]_vars
    /\ \A t \in Threads :
          InCall(t) ~> (/\ pc[t] = "ready"
                        /\ \A q \in Queries, p \in Cpus : ENABLED Invoke(t, q[1], q[2], p))
C8_Witness ==
    \E t \in Threads : Done(t) /\ Branch(cfg) = "intrinsic" /\ leaf[t] = Word(SignBit, 8)

\* C9: a step of a call changes only that call's own outputs: the caller's
\* leaf and subleaf, the other threads' arguments and outputs and the build
\* configuration stay as they were; the outputs a call returns are those of
\* the call run alone, whatever calls came before; and once no call is in
\* progress nothing of the function's own storage is left alive.
C9_Frame ==
    [][/\ cfg' = cfg
       /\ \A t \in Threads :
             /\ InCall(t) => (leaf'[t] = leaf[t] /\ subleaf'[t] = subleaf[t])
             /\ (InCall(t) /\ pc'[t] = "ready") =>
                   out'[t] = CpuidRaw(cfg, cpu[t], leaf[t], subleaf[t])
             /\ pc'[t] = pc[t] =>
                   /\ out'[t] = out[t]
                   /\ leaf'[t] = leaf[t] /\ subleaf'[t] = subleaf[t]
       /\ (\A t \in Threads : pc'[t] = "ready") => \A k \in Threads : ~regs'[k].live
      ]_vars
C9_Witness ==
    \E t, u \in Threads :
        /\ t # u /\ Branch(cfg) = "intrinsic"
        /\ Done(t) /\ Done(u) /\ AllWritten(out[t]) /\ AllWritten(out[u])
        /\ out[t] # out[u]

\* C10: on the intrinsic path the selectors reach the instruction with the
\* bits the caller passed, also when 2^31 or more, and the outputs are what
\* the inline-assembly path gives for the same processor, also for register
\* values with the top bit set.
AsmResult(p, l, s) == LET a == AsmSel(l, s) IN Cpuid(p, a[1], a[2])
C10_IntrinsicBitPattern ==
    Branch(cfg) = "intrinsic" =>
        \A t \in Threads :
            /\ pc[t] = "unpack" => sel[t] = <<leaf[t], subleaf[t]>>
            /\ Done(t) => out[t] = AsmResult(cpu[t], leaf[t], subleaf[t])
C10_Witness ==
    \E t, u \in Threads :
        /\ Branch(cfg) = "intrinsic"
        /\ pc[t] = "unpack" /\ regs[t].live /\ regs[t].v[2] < 0 /\ subleaf[t][1] >= SignBit
        /\ Done(u) /\ leaf[u][1] >= SignBit /\ out[u].ebx[1] >= SignBit

====
